---- MODULE Spec2Model ----
(***************************************************************************)
(* State-machine model of AttachedDocEditorController (the orchestration   *)
(* layer of the PDF form editor), of the renderer message parser, and of   *)
(* the ports the controller drives: overlay gate, field writer, instance   *)
(* manager, template store, coordinate transform, clock.                   *)
(*                                                                         *)
(* One action is one run-to-completion piece of JavaScript: a synchronous  *)
(* handler, or the part of an async method between two suspensions on an   *)
(* external promise.  An await of a promise that is already settled        *)
(* (normalizeTemplate, refreshRendererAfterSave, the early returns of      *)
(* loadIntoRenderer) resumes in the microtask queue, before any renderer   *)
(* message or timer, and is folded into the action that reaches it.        *)
(***************************************************************************)
EXTENDS Integers, Sequences, FiniteSets, TLC

(* ------------------------------ bounds --------------------------------- *)
\* edits whose writer call may be pending at the same time
MaxEdits == 1
\* detached loadIntoRenderer calls (started by READY) whose read is pending
MaxLoads == 1
\* refresh timers scheduled and not yet fired
MaxTimers == 1
\* LOAD_PDF_BASE64 commands counted per opened working copy
MaxPosted == 2
\* edits started without awaiting one another, where that is the scenario
MaxConcurrent == 2

(* ------------------------------ values --------------------------------- *)
\* JavaScript values are written as tokens, so that any two of them can be
\* compared: null, undefined, NaN, the booleans, and numbers by their
\* decimal text.  A JSON string whose text is a number is a token of its own
\* ("s:800"), which Number() converts.
null == "null"
undefined == "undefined"
NaN == "NaN"
jsTrue == "true"
jsFalse == "false"

NumberTokens == {"0", "1", "1.5", "5", "45", "90", "180", "270", "600", "800"}
NumericStrings == {"s:800"}
StringToNumber(v) == IF v = "s:800" THEN "800" ELSE NaN

(* ---------------------------- overlay gate ----------------------------- *)
\* The gate is a port: the controller only calls it.  Its state machine is
\* {Masked, PendingUnmask, Visible} plus "a render-done was recorded since
\* the last mask".
GateStates == {"Masked", "PendingUnmask", "Visible"}

GateInit == [state |-> "Masked", renderDone |-> FALSE]

\* markTick: a pending unmask does not survive renderer activity; a gate
\* that is already Visible stays so.
markTick(g) ==
  IF g.state = "PendingUnmask" THEN [g EXCEPT !.state = "Masked"] ELSE g

markRenderDone(g) == [g EXCEPT !.renderDone = TRUE]

\* maskOverlays: immediate, from every state; forgets the render-done.
maskOverlays(g) == [state |-> "Masked", renderDone |-> FALSE]

\* requestUnmask as a gate that grants every request would have it
requestUnmask_Always(g) ==
  IF g.state = "Masked" THEN [g EXCEPT !.state = "PendingUnmask"] ELSE g

\* requestUnmask: granted (as PendingUnmask) only when a render-done was
\* recorded since the last mask.
requestUnmask(g) ==
  IF g.state = "Masked" /\ g.renderDone
    THEN [g EXCEPT !.state = "PendingUnmask"]
    ELSE g

canShowOverlays(g) == g.state = "Visible"

\* the quiet window elapsing with no tick and no mask in it
quietWindowElapsed(g) == [g EXCEPT !.state = "Visible"]

(* ----------------------- renderer bridge protocol ---------------------- *)
\* A raw transport string, by what JSON.parse and the member reads make of
\* it: json = FALSE is text that does not parse; a member is a number, a
\* string, null, or undefined (missing).
Raw(json, type, width, height, scale, rotation, pages) ==
  [json |-> json, type |-> type, width |-> width, height |-> height,
   scale |-> scale, rotation |-> rotation, pages |-> pages]

RawOfType(t) == Raw(TRUE, t, undefined, undefined, undefined, undefined, undefined)

RawDims(w, h, s, r) == Raw(TRUE, "PDF_DIMENSIONS", w, h, s, r, undefined)

NotJson == Raw(FALSE, undefined, undefined, undefined, undefined, undefined, undefined)

\* RendererInboundMessage; members a type does not carry are undefined, and
\* the parser's null is the message of type null
Msg(type, width, height, scale, rotation, pages) ==
  [type |-> type, width |-> width, height |-> height, scale |-> scale,
   rotation |-> rotation, pages |-> pages]

NoEvent == Msg(null, undefined, undefined, undefined, undefined, undefined)

InboundTypes ==
  {"READY", "PDF_DIMENSIONS", "RENDER_DONE", "READY_FOR_OVERLAYS", "DEBUG_PAGE_COUNT"}

\* JavaScript Number(v) on a JSON member
Number(v) ==
  IF v \in NumberTokens THEN v
  ELSE IF v = null THEN "0"
  ELSE IF v \in NumericStrings THEN StringToNumber(v)
  ELSE NaN

\* typeof v === "string"
IsString(v) == v \notin NumberTokens \cup {null, undefined, jsTrue, jsFalse}

\* the parser without its default case: any string type makes an event
parseRendererInboundMessage_NoDefault(raw) ==
  IF ~raw.json THEN NoEvent
  ELSE IF ~IsString(raw.type) THEN NoEvent
  ELSE IF raw.type = "PDF_DIMENSIONS"
    THEN Msg("PDF_DIMENSIONS", Number(raw.width), Number(raw.height), Number(raw.scale),
             IF raw.rotation \in {null, undefined} THEN undefined ELSE Number(raw.rotation),
             undefined)
  ELSE IF raw.type = "DEBUG_PAGE_COUNT"
    THEN Msg("DEBUG_PAGE_COUNT", undefined, undefined, undefined, undefined,
             Number(raw.pages))
  ELSE Msg(raw.type, undefined, undefined, undefined, undefined, undefined)

parseRendererInboundMessage(raw) ==
  IF ~raw.json THEN NoEvent
  ELSE IF ~IsString(raw.type) THEN NoEvent
  ELSE IF raw.type \in {"READY", "RENDER_DONE", "READY_FOR_OVERLAYS"}
    THEN Msg(raw.type, undefined, undefined, undefined, undefined, undefined)
  ELSE IF raw.type = "PDF_DIMENSIONS"
    THEN Msg("PDF_DIMENSIONS", Number(raw.width), Number(raw.height), Number(raw.scale),
             IF raw.rotation \in {null, undefined} THEN undefined ELSE Number(raw.rotation),
             undefined)
  ELSE IF raw.type = "DEBUG_PAGE_COUNT"
    THEN Msg("DEBUG_PAGE_COUNT", undefined, undefined, undefined, undefined,
             Number(raw.pages))
  ELSE NoEvent

(* ------------------------------- fields -------------------------------- *)
\* PdfField.  A percent rect is a token ("R1"); an absent rect is undefined.
Field(name, type, value, rel, scaled) ==
  [name |-> name, type |-> type, value |-> value,
   relativeCoordinates |-> rel, scaledCoordinates |-> scaled]

\* this.viewport
Viewport(w, h, s, r) == [width |-> w, height |-> h, scale |-> s, rotation |-> r]

\* this.viewport === undefined
NoViewport == Viewport(undefined, undefined, undefined, undefined)

\* The geometry behind CoordinateTransformPort is not published: the pixel
\* rect is kept as the application itself, so that two results are equal
\* only for the same percent rect under the same viewport.
toPixelRect(rect, vp) == [px |-> rect, of |-> vp]

\* scaledCoordinates === undefined
NoPixelRect == [px |-> undefined, of |-> NoViewport]

RECURSIVE IndexOfName(_, _, _)
IndexOfName(fs, name, i) ==
  IF i > Len(fs) THEN 0
  ELSE IF fs[i].name = name THEN i
  ELSE IndexOfName(fs, name, i + 1)

\* this.fields.find((x) => x.name === name): the first match's index, 0 for
\* undefined
findField(fs, name) == IndexOfName(fs, name, 1)

\* new Map built by extracted.forEach(map.set): the last entry of a name wins
RECURSIVE LastIndexOfName(_, _, _)
LastIndexOfName(fs, name, i) ==
  IF i = 0 THEN 0
  ELSE IF fs[i].name = name THEN i
  ELSE LastIndexOfName(fs, name, i - 1)

\* a layering that ignores the extraction
layerValues_KeepsTemplate(template, extracted) == template

layerValues(template, extracted) ==
  [i \in 1..Len(template) |->
     IF LastIndexOfName(extracted, template[i].name, Len(extracted)) = 0
       THEN template[i]
       ELSE [template[i] EXCEPT
               !.value = extracted[LastIndexOfName(extracted, template[i].name,
                                                   Len(extracted))].value]]

\* recomputeScaledRectsIfPossible: is toPixelRect called at all
RecomputeCalls(fs, vp) ==
  vp # NoViewport /\ \E i \in 1..Len(fs) : fs[i].relativeCoordinates # undefined

\* recomputeScaledRectsIfPossible, when no toPixelRect call throws
recomputeScaledRects(fs, vp) ==
  IF vp = NoViewport THEN fs
  ELSE [i \in 1..Len(fs) |->
          IF fs[i].relativeCoordinates = undefined THEN fs[i]
          ELSE [fs[i] EXCEPT
                  !.scaledCoordinates = toPixelRect(fs[i].relativeCoordinates, vp)]]

\* a map that gives the value to every field
setValueByName_Everywhere(fs, name, value) ==
  [i \in 1..Len(fs) |-> [fs[i] EXCEPT !.value = value]]

\* fields.map((f) => (f.name === fieldName ? { ...f, value } : f))
setValueByName(fs, name, value) ==
  [i \in 1..Len(fs) |-> IF fs[i].name = name THEN [fs[i] EXCEPT !.value = value] ELSE fs[i]]

\* saveSignature, mode "all"
signAll(fs) ==
  [i \in 1..Len(fs) |->
     IF fs[i].type = "PDFSignature" THEN [fs[i] EXCEPT !.value = "SIGNED"] ELSE fs[i]]

\* a reset that gives every kind the empty string
clearedValue_AlwaysEmpty(f) == ""

\* clearForm's per-type reset
clearedValue(f) ==
  IF f.type = "PDFCheckBox" THEN jsFalse
  ELSE IF f.type = "PDFTextField" THEN ""
  ELSE null

clearAll(fs) == [i \in 1..Len(fs) |-> [fs[i] EXCEPT !.value = clearedValue(fs[i])]]

\* !Boolean(v): true for the falsy values
NotBoolean(v) == IF v \in {jsFalse, null, "", "0", NaN, undefined} THEN jsTrue ELSE jsFalse

(* --------------------------- documents, inputs ------------------------- *)
Docs == {"a.pdf", "b.pdf"}

\* the working copy the instance manager hands out for a document
PathOf(d) == IF d = "a.pdf" THEN "/work/a.pdf" ELSE "/work/b.pdf"

Paths == {PathOf(d) : d \in Docs}

\* a rendered box computed for a viewport of an earlier session
StaleRect == toPixelRect("R3", Viewport("600", "800", "1", undefined))

TemplateA ==
  << Field("fullName", "PDFTextField", "", "R1", NoPixelRect),
     Field("agree", "PDFCheckBox", jsFalse, "R2", NoPixelRect),
     Field("sig", "PDFSignature", null, undefined, NoPixelRect) >>

TemplateB ==
  << Field("fullName", "PDFTextField", "x", "R1", NoPixelRect),
     Field("choice", "PDFRadio", "r", undefined, StaleRect) >>

ExtractedA ==
  << Field("fullName", "PDFTextField", "Jane Doe", undefined, NoPixelRect),
     Field("stray", "PDFTextField", "zzz", undefined, NoPixelRect) >>

ExtractedB == << Field("choice", "PDFRadio", "s", undefined, NoPixelRect) >>

OpenResult(path, extracted, template) ==
  [localPath |-> path, extractedFields |-> extracted, template |-> template]

\* what instanceManager.open resolves with for a request
OpenResults(d) ==
  IF d = "a.pdf"
    THEN {OpenResult(PathOf(d), ExtractedA, TemplateA)}
    ELSE {OpenResult(PathOf(d), ExtractedB, TemplateB)}

(* ------------------------------- state --------------------------------- *)
VARIABLES
  transport,          \* a RendererTransport is attached
  fileName,
  localPath,
  pageNumber,
  scale,              \* in tenths: 10 is 1.0
  rendererReady,
  overlaysVisible,
  isDirty,
  fields,
  selectedFieldName,
  viewport,
  status,
  gate,               \* the OverlayGatePort's state
  openTask,           \* the openDocument call in flight
  edits,              \* edit calls suspended on their writer call
  loads,              \* detached loadIntoRenderer calls suspended on the read
  timers,             \* refresh callbacks scheduled on the clock
  loadPosts,          \* LOAD_PDF_BASE64 commands posted, per working copy
  last,               \* the step just taken: operation, outcome, its calls in order
  sinceMask,          \* the unmask events (RENDER_DONE, READY_FOR_OVERLAYS) handled
                      \* since the last maskOverlays
  superseded          \* how many of the scheduled refresh callbacks were followed
                      \* by a later maskOverlays; NotTracked where no specification
                      \* needs it

session == <<fileName, localPath, pageNumber, scale, rendererReady, overlaysVisible,
             isDirty, fields, selectedFieldName, viewport, status>>
tasks == <<openTask, edits, loads, timers, loadPosts>>
ghost == <<last, sinceMask, superseded>>
vars == <<transport, session, gate, tasks, ghost>>

(* ------------------------- effects of a handler ------------------------ *)
\* A handler is written as the list of its calls and assignments, in source
\* order.  Run applies the ones that touch the gate and overlaysVisible.
GateOv(g, ov) == [gate |-> g, ov |-> ov]

Effect(s, c) ==
  IF c = "markTick" THEN GateOv(markTick(s.gate), s.ov)
  ELSE IF c = "markRenderDone" THEN GateOv(markRenderDone(s.gate), s.ov)
  ELSE IF c = "maskOverlays" THEN GateOv(maskOverlays(s.gate), s.ov)
  ELSE IF c = "requestUnmask" THEN GateOv(requestUnmask(s.gate), s.ov)
  ELSE IF c = "overlaysVisible=false" THEN GateOv(s.gate, FALSE)
  ELSE IF c = "overlaysVisible=canShowOverlays" THEN GateOv(s.gate, canShowOverlays(s.gate))
  ELSE s

RECURSIVE Run(_, _)
Run(s, calls) == IF calls = <<>> THEN s ELSE Run(Effect(s, Head(calls)), Tail(calls))

Has(calls, c) == \E i \in 1..Len(calls) : calls[i] = c

\* the history the gate claims are stated over
SinceMaskAfter(calls, isUnmaskEvent, type) ==
  IF Has(calls, "maskOverlays") THEN {}
  ELSE IF isUnmaskEvent THEN sinceMask \cup {type}
  ELSE sinceMask

Step(op, out, calls) == [op |-> op, out |-> out, calls |-> calls]

NotTracked == -1

\* refresh callbacks fire in the order they were scheduled, so the superseded
\* ones are the oldest; a maskOverlays supersedes every callback scheduled
\* before it (refreshRendererAfterSave masks before it schedules its own)
SupersededAfter(op, calls) ==
  IF superseded = NotTracked THEN NotTracked
  ELSE IF op = "refreshTimer" THEN (IF superseded > 0 THEN superseded - 1 ELSE 0)
  ELSE IF Has(calls, "maskOverlays") THEN timers
  ELSE superseded

\* what every handler does with its call list
Apply(op, out, calls, isUnmaskEvent) ==
  /\ LET r == Run(GateOv(gate, overlaysVisible), calls) IN
       /\ gate' = r.gate
       /\ overlaysVisible' = r.ov
  /\ last' = Step(op, out, calls)
  /\ sinceMask' = SinceMaskAfter(calls, isUnmaskEvent, out)
  /\ superseded' = SupersededAfter(op, calls)

(* ------------------------------- Init ---------------------------------- *)
NoOpen == [pc |-> "idle", req |-> null, path |-> null,
           pre |-> [fileName |-> null, localPath |-> null, fields |-> <<>>]]

InitSession ==
  /\ transport = FALSE
  /\ fileName = null
  /\ localPath = null
  /\ pageNumber = 1
  /\ scale = 10
  /\ rendererReady = FALSE
  /\ overlaysVisible = FALSE
  /\ isDirty = FALSE
  /\ fields = <<>>
  /\ selectedFieldName = null
  /\ viewport = NoViewport
  /\ status = undefined
  /\ gate = GateInit
  /\ openTask = NoOpen
  /\ edits = <<>>
  /\ loads = <<>>
  /\ timers = 0
  /\ loadPosts = [p \in Paths |-> 0]
  /\ last = Step("constructor", "return", <<"emit">>)
  /\ sinceMask = {}

Init == InitSession /\ superseded = NotTracked

\* the same state, with the superseded refresh callbacks counted
InitTracked == InitSession /\ superseded = 0

(* ------------------------- attachRendererTransport --------------------- *)
AttachRendererTransport ==
  /\ ~transport
  /\ transport' = TRUE
  /\ last' = Step("attachRendererTransport", "return", <<>>)
  /\ UNCHANGED <<session, gate, tasks, sinceMask, superseded>>

(* ------------------------------ openDocument --------------------------- *)
Snapshot3 == [fileName |-> fileName, localPath |-> localPath, fields |-> fields]

\* openDocument up to its first suspension, on instanceManager.open
OpenStartCalls == <<"status=Opening", "emit", "instanceManager.open">>

OpenStart(d) ==
  /\ openTask.pc = "idle"
  /\ status' = "Opening document..."
  /\ openTask' = [pc |-> "open", req |-> d, path |-> null, pre |-> Snapshot3]
  /\ Apply("openDocument", "suspended", OpenStartCalls, FALSE)
  /\ UNCHANGED <<transport, fileName, localPath, pageNumber, scale, rendererReady, isDirty,
                 fields, selectedFieldName, viewport, edits, loads, timers, loadPosts>>

\* the catch block of openDocument
OpenCatchCalls == <<"status=Error", "emit", "onError", "throw">>

\* instanceManager.open rejects
OpenRejected ==
  /\ openTask.pc = "open"
  /\ status' = "Error opening document"
  /\ openTask' = [openTask EXCEPT !.pc = "idle"]
  /\ Apply("openDocument", "throw", OpenCatchCalls, FALSE)
  /\ UNCHANGED <<transport, fileName, localPath, pageNumber, scale, rendererReady, isDirty,
                 fields, selectedFieldName, viewport, edits, loads, timers, loadPosts>>

\* loadIntoRenderer without its rendererReady check
LoadGuard_IgnoresReady(t, ready, path) == t /\ path # null /\ path # ""

\* loadIntoRenderer's three early returns
LoadGuard(t, ready, path) == t /\ ready /\ path # null /\ path # ""

\* instanceManager.open resolves with res; putThrows: templateStore.putTemplate
\* throws; txThrows: a toPixelRect call throws.  Runs to the read of the PDF
\* bytes, or to the end when loadIntoRenderer returns early.
OpenResolved(res, putThrows, txThrows) ==
  /\ openTask.pc = "open"
  /\ fileName' = openTask.req
  /\ localPath' = res.localPath
  /\ loadPosts' = [loadPosts EXCEPT ![res.localPath] = 0]
  /\ IF putThrows
       THEN /\ fields' = fields
            /\ status' = "Error opening document"
            /\ openTask' = [openTask EXCEPT !.pc = "idle"]
            /\ Apply("openDocument", "throw",
                     <<"fileName=", "localPath=", "putTemplate">> \o OpenCatchCalls, FALSE)
       ELSE IF txThrows /\ RecomputeCalls(layerValues(res.template, res.extractedFields), viewport)
       THEN /\ fields' = layerValues(res.template, res.extractedFields)
            /\ status' = "Error opening document"
            /\ openTask' = [openTask EXCEPT !.pc = "idle"]
            /\ Apply("openDocument", "throw",
                     <<"fileName=", "localPath=", "putTemplate", "fields=", "toPixelRect">>
                       \o OpenCatchCalls, FALSE)
       ELSE /\ fields' = recomputeScaledRects(layerValues(res.template, res.extractedFields),
                                              viewport)
            /\ IF LoadGuard(transport, rendererReady, res.localPath)
                 THEN /\ status' = status
                      /\ openTask' = [openTask EXCEPT !.pc = "read", !.path = res.localPath]
                      /\ Apply("openDocument", "suspended",
                               <<"fileName=", "localPath=", "putTemplate", "fields=",
                                 "readPdfAsBase64">>, FALSE)
                 ELSE /\ status' = "Ready"
                      /\ openTask' = NoOpen
                      /\ Apply("openDocument", "return",
                               <<"fileName=", "localPath=", "putTemplate", "fields=",
                                 "status=Ready", "emit">>, FALSE)
  /\ UNCHANGED <<transport, pageNumber, scale, rendererReady, isDirty, selectedFieldName,
                 viewport, edits, loads, timers>>

\* sendRendererCommand: nothing without a transport
Posts(t) == IF t THEN 1 ELSE 0

\* the read of openDocument's loadIntoRenderer resolves: LOAD_PDF_BASE64 is posted
OpenReadResolved ==
  /\ openTask.pc = "read"
  /\ loadPosts[openTask.path] + Posts(transport) <= MaxPosted
  /\ loadPosts' = [loadPosts EXCEPT ![openTask.path] = @ + Posts(transport)]
  /\ status' = "Ready"
  /\ openTask' = NoOpen
  /\ Apply("openDocument", "return", <<"post:LOAD_PDF_BASE64", "status=Ready", "emit">>, FALSE)
  /\ UNCHANGED <<transport, fileName, localPath, pageNumber, scale, rendererReady, isDirty,
                 fields, selectedFieldName, viewport, edits, loads, timers>>

\* the read rejects
OpenReadRejected ==
  /\ openTask.pc = "read"
  /\ status' = "Error opening document"
  /\ openTask' = [openTask EXCEPT !.pc = "idle"]
  /\ Apply("openDocument", "throw", OpenCatchCalls, FALSE)
  /\ UNCHANGED <<transport, fileName, localPath, pageNumber, scale, rendererReady, isDirty,
                 fields, selectedFieldName, viewport, edits, loads, timers, loadPosts>>

(* ----------------------------- onRendererMessage ----------------------- *)
\* onRendererMessage with READY_FOR_OVERLAYS recording a render-done of its own
HandlerCalls_RfoMarksRenderDone(type) ==
  IF type = "READY"
    THEN <<"parseInboundMessage", "onLog", "markTick", "rendererReady=true",
           "loadIntoRenderer", "emit">>
  ELSE IF type = "PDF_DIMENSIONS"
    THEN <<"parseInboundMessage", "onLog", "markTick", "viewport=", "maskOverlays",
           "overlaysVisible=false", "fields=", "emit">>
  ELSE IF type \in {"RENDER_DONE", "READY_FOR_OVERLAYS"}
    THEN <<"parseInboundMessage", "onLog", "markTick", "markRenderDone", "requestUnmask",
           "overlaysVisible=canShowOverlays", "emit">>
  ELSE IF type = "DEBUG_PAGE_COUNT"
    THEN <<"parseInboundMessage", "onLog", "markTick", "onLog">>
  ELSE <<"parseInboundMessage">>

\* onRendererMessage asking for the unmask before it records the render-done
HandlerCalls_UnmaskBeforeRenderDone(type) ==
  IF type = "READY"
    THEN <<"parseInboundMessage", "onLog", "markTick", "rendererReady=true",
           "loadIntoRenderer", "emit">>
  ELSE IF type = "PDF_DIMENSIONS"
    THEN <<"parseInboundMessage", "onLog", "markTick", "viewport=", "maskOverlays",
           "overlaysVisible=false", "fields=", "emit">>
  ELSE IF type = "RENDER_DONE"
    THEN <<"parseInboundMessage", "onLog", "markTick", "requestUnmask", "markRenderDone",
           "overlaysVisible=canShowOverlays", "emit">>
  ELSE IF type = "READY_FOR_OVERLAYS"
    THEN <<"parseInboundMessage", "onLog", "markTick", "requestUnmask",
           "overlaysVisible=canShowOverlays", "emit">>
  ELSE IF type = "DEBUG_PAGE_COUNT"
    THEN <<"parseInboundMessage", "onLog", "markTick", "onLog">>
  ELSE <<"parseInboundMessage">>

\* the calls and assignments of onRendererMessage for a parsed message, in
\* source order, when nothing throws
HandlerCalls(type) ==
  IF type = "READY"
    THEN <<"parseInboundMessage", "onLog", "markTick", "rendererReady=true",
           "loadIntoRenderer", "emit">>
  ELSE IF type = "PDF_DIMENSIONS"
    THEN <<"parseInboundMessage", "onLog", "markTick", "viewport=", "maskOverlays",
           "overlaysVisible=false", "fields=", "emit">>
  ELSE IF type = "RENDER_DONE"
    THEN <<"parseInboundMessage", "onLog", "markTick", "markRenderDone", "requestUnmask",
           "overlaysVisible=canShowOverlays", "emit">>
  ELSE IF type = "READY_FOR_OVERLAYS"
    THEN <<"parseInboundMessage", "onLog", "markTick", "requestUnmask",
           "overlaysVisible=canShowOverlays", "emit">>
  ELSE IF type = "DEBUG_PAGE_COUNT"
    THEN <<"parseInboundMessage", "onLog", "markTick", "onLog">>
  ELSE <<"parseInboundMessage">>

\* PDF_DIMENSIONS when a toPixelRect call throws: the handler ends there
DimsThrowCalls ==
  <<"parseInboundMessage", "onLog", "markTick", "viewport=", "maskOverlays",
    "overlaysVisible=false", "toPixelRect", "throw">>

IsUnmaskEvent(type) == type \in {"RENDER_DONE", "READY_FOR_OVERLAYS"}

\* a message the parser gives no event for
OnDropped(raw) ==
  /\ parseRendererInboundMessage(raw) = NoEvent
  /\ Apply("onRendererMessage", "return", HandlerCalls(null), FALSE)
  /\ UNCHANGED <<transport, fileName, localPath, pageNumber, scale, rendererReady, isDirty,
                 fields, selectedFieldName, viewport, status, tasks>>

OnReady(raw) ==
  /\ parseRendererInboundMessage(raw).type = "READY"
  /\ rendererReady' = TRUE
  /\ IF LoadGuard(transport, TRUE, localPath)
       THEN /\ Len(loads) < MaxLoads
            /\ loads' = Append(loads, localPath)
       ELSE loads' = loads
  /\ Apply("onRendererMessage", "READY", HandlerCalls("READY"), FALSE)
  /\ UNCHANGED <<transport, fileName, localPath, pageNumber, scale, isDirty, fields,
                 selectedFieldName, viewport, status, openTask, edits, timers, loadPosts>>

OnPdfDimensions(raw, txThrows) ==
  LET msg == parseRendererInboundMessage(raw)
      vp == Viewport(msg.width, msg.height, msg.scale, msg.rotation)
  IN
  /\ msg.type = "PDF_DIMENSIONS"
  /\ viewport' = vp
  /\ IF txThrows /\ RecomputeCalls(fields, vp)
       THEN /\ fields' = fields
            /\ Apply("onRendererMessage", "throw", DimsThrowCalls, FALSE)
       ELSE /\ fields' = recomputeScaledRects(fields, vp)
            /\ Apply("onRendererMessage", "PDF_DIMENSIONS", HandlerCalls("PDF_DIMENSIONS"),
                     FALSE)
  /\ UNCHANGED <<transport, fileName, localPath, pageNumber, scale, rendererReady, isDirty,
                 selectedFieldName, status, tasks>>

\* RENDER_DONE, READY_FOR_OVERLAYS and DEBUG_PAGE_COUNT touch only the gate
\* and overlaysVisible
OnGateEvent(raw) ==
  LET msg == parseRendererInboundMessage(raw) IN
  /\ msg.type \in {"RENDER_DONE", "READY_FOR_OVERLAYS", "DEBUG_PAGE_COUNT"}
  /\ Apply("onRendererMessage", msg.type, HandlerCalls(msg.type), IsUnmaskEvent(msg.type))
  /\ UNCHANGED <<transport, fileName, localPath, pageNumber, scale, rendererReady, isDirty,
                 fields, selectedFieldName, viewport, status, tasks>>

\* a detached loadIntoRenderer (started by READY): its read resolves
LoadReadResolved(i) ==
  /\ i \in 1..Len(loads)
  /\ loadPosts[loads[i]] + Posts(transport) <= MaxPosted
  /\ loadPosts' = [loadPosts EXCEPT ![loads[i]] = @ + Posts(transport)]
  /\ loads' = [j \in 1..(Len(loads) - 1) |-> IF j < i THEN loads[j] ELSE loads[j + 1]]
  /\ last' = Step("loadIntoRenderer", "return", <<"post:LOAD_PDF_BASE64">>)
  /\ UNCHANGED <<transport, session, gate, openTask, edits, timers, sinceMask, superseded>>

\* its read rejects: the rejection of the voided promise is unhandled
LoadReadRejected(i) ==
  /\ i \in 1..Len(loads)
  /\ loads' = [j \in 1..(Len(loads) - 1) |-> IF j < i THEN loads[j] ELSE loads[j + 1]]
  /\ last' = Step("loadIntoRenderer", "throw", <<>>)
  /\ UNCHANGED <<transport, session, gate, openTask, edits, timers, loadPosts, sinceMask, superseded>>

(* ------------------------------- navigation ---------------------------- *)
\* a navigation mask that tells the gate and leaves overlaysVisible alone
MaskForNavigationCalls_GateOnly == <<"maskOverlays">>

\* maskOverlaysForNavigation
MaskForNavigationCalls == <<"maskOverlays", "overlaysVisible=false">>

PostCalls(t, cmd) == IF t THEN <<cmd>> ELSE <<>>

\* setPage posting its command before it masks
SetPageCalls_PostFirst(t) ==
  <<"pageNumber=">> \o PostCalls(t, "post:SET_PAGE") \o MaskForNavigationCalls \o <<"emit">>

SetPageCalls(t) ==
  <<"pageNumber=">> \o MaskForNavigationCalls \o PostCalls(t, "post:SET_PAGE") \o <<"emit">>

SetScaleCalls(t) ==
  <<"scale=">> \o MaskForNavigationCalls \o PostCalls(t, "post:SET_SCALE") \o <<"emit">>

\* Math.max(1, Math.floor(n)) on an integer
ClampPage(n) == IF n > 1 THEN n ELSE 1

\* Math.max(0.1, s), in tenths
ClampScale(s) == IF s > 1 THEN s ELSE 1

SetPage(n) ==
  /\ pageNumber' = ClampPage(n)
  /\ Apply("setPage", "return", SetPageCalls(transport), FALSE)
  /\ UNCHANGED <<transport, fileName, localPath, scale, rendererReady, isDirty, fields,
                 selectedFieldName, viewport, status, tasks>>

SetScale(s) ==
  /\ scale' = ClampScale(s)
  /\ Apply("setScale", "return", SetScaleCalls(transport), FALSE)
  /\ UNCHANGED <<transport, fileName, localPath, pageNumber, rendererReady, isDirty, fields,
                 selectedFieldName, viewport, status, tasks>>

SelectField(name) ==
  /\ selectedFieldName' = name
  /\ Apply("selectField", "return", <<"selectedFieldName=", "emit">>, FALSE)
  /\ UNCHANGED <<transport, fileName, localPath, pageNumber, scale, rendererReady, isDirty,
                 fields, viewport, status, tasks>>

(* --------------------------------- edits ------------------------------- *)
EditOps == {"saveText", "toggleCheckbox", "saveSignature", "clearForm"}

SavingStatus(op) ==
  IF op = "saveText" THEN "Saving text..."
  ELSE IF op = "toggleCheckbox" THEN "Saving checkbox..."
  ELSE IF op = "saveSignature" THEN "Saving signature..."
  ELSE "Clearing form..."

ErrorStatus(op) ==
  IF op = "saveText" THEN "Error saving text"
  ELSE IF op = "toggleCheckbox" THEN "Error saving checkbox"
  ELSE IF op = "saveSignature" THEN "Error saving signature"
  ELSE "Error clearing form"

DoneStatus(op) == IF op = "clearForm" THEN "Cleared" ELSE "Saved"

\* an edit call: name is fieldName / targetFieldName, value the text, the
\* nextValue or the signature payload, mode the signature mode
Edit(op, name, value, mode) == [op |-> op, name |-> name, value |-> value, mode |-> mode]

\* saveText and toggleCheckbox resolve their target first
ResolvesTarget(op) == op \in {"saveText", "toggleCheckbox"}

\* the value toggleCheckbox writes: nextValue when it is a boolean, else the
\* negation of the field's current value
ToggleValue(fs, name, nextValue) ==
  IF nextValue \in {jsTrue, jsFalse} THEN nextValue
  ELSE NotBoolean(fs[findField(fs, name)].value)

\* a catch block that masks again
EditCatchCalls_Masks ==
  <<"status=Error", "maskOverlays", "overlaysVisible=false", "emit", "onError", "throw">>

\* the catch block of an edit
EditCatchCalls == <<"status=Error", "emit", "onError", "throw">>

\* an edit that does not mask before its writer call
EditStartCalls_NoMask(op) ==
  (IF ResolvesTarget(op) THEN <<"mustFindField">> ELSE <<>>)
    \o <<"status=Saving", "isDirty=true", "emit", "fieldWriter">>

\* the synchronous part of an edit that reaches its writer call
EditStartCalls(op) ==
  (IF ResolvesTarget(op) THEN <<"mustFindField">> ELSE <<>>)
    \o <<"status=Saving", "isDirty=true">> \o MaskForNavigationCalls
    \o <<"emit", "fieldWriter">>

\* an edit that marks the session dirty before it resolves its target
EditFieldNotFound_MarksDirty(e) ==
  /\ ResolvesTarget(e.op)
  /\ findField(fields, e.name) = 0
  /\ status' = ErrorStatus(e.op)
  /\ isDirty' = TRUE
  /\ Apply(e.op, "throw:FieldNotFound", <<"isDirty=true", "mustFindField">> \o EditCatchCalls,
           FALSE)
  /\ UNCHANGED <<transport, fileName, localPath, pageNumber, scale, rendererReady,
                 fields, selectedFieldName, viewport, tasks>>

\* the call fails before anything else: unknown field name
EditFieldNotFound(e) ==
  /\ ResolvesTarget(e.op)
  /\ findField(fields, e.name) = 0
  /\ status' = ErrorStatus(e.op)
  /\ Apply(e.op, "throw:FieldNotFound", <<"mustFindField">> \o EditCatchCalls, FALSE)
  /\ UNCHANGED <<transport, fileName, localPath, pageNumber, scale, rendererReady, isDirty,
                 fields, selectedFieldName, viewport, tasks>>

\* the call fails on !this.localPath
EditNoLocalPath(e) ==
  /\ ResolvesTarget(e.op) => findField(fields, e.name) # 0
  /\ localPath \in {null, ""}
  /\ status' = ErrorStatus(e.op)
  /\ Apply(e.op, "throw:NoLocalPath", EditCatchCalls, FALSE)
  /\ UNCHANGED <<transport, fileName, localPath, pageNumber, scale, rendererReady, isDirty,
                 fields, selectedFieldName, viewport, tasks>>

\* an edit suspended on its writer call: its arguments and, where the
\* specification observes it, the status the session had when the call began
Pending(e, st) ==
  [op |-> e.op, name |-> e.name, value |-> e.value, mode |-> e.mode, pre |-> st]

NotObserved == "not observed"

\* the call reaches its writer call and suspends on it, next to fewer than
\* max other calls
EditCallWithin(e, pre, max) ==
  /\ ResolvesTarget(e.op) => findField(fields, e.name) # 0
  /\ localPath \notin {null, ""}
  /\ Len(edits) < max
  /\ status' = SavingStatus(e.op)
  /\ isDirty' = TRUE
  /\ edits' = Append(edits,
                     Pending(IF e.op = "toggleCheckbox"
                               THEN [e EXCEPT !.value = ToggleValue(fields, e.name, e.value)]
                               ELSE e,
                             pre))
  /\ Apply(e.op, "suspended", EditStartCalls(e.op), FALSE)
  /\ UNCHANGED <<transport, fileName, localPath, pageNumber, scale, rendererReady, fields,
                 selectedFieldName, viewport, openTask, loads, timers, loadPosts>>

EditCall(e, pre) == EditCallWithin(e, pre, MaxEdits)

EditStart(e) == EditCall(e, NotObserved)

\* the same call, with the status at its beginning kept for the observer
EditStartObserved(e) == EditCall(e, status)

\* the call, not awaited by its caller, with the Field Store it saw kept for
\* the observer
EditStartUnawaited(e) == EditCallWithin(e, fields, MaxConcurrent)

\* an in-memory update made on the Field Store the call saw when it began
FieldsAfter_OnCallTimeStore(fs, e) ==
  IF e.op \in {"saveText", "toggleCheckbox"} THEN setValueByName(e.pre, e.name, e.value)
  ELSE IF e.mode = "single" /\ e.name \notin {undefined, ""}
    THEN setValueByName(e.pre, e.name, "SIGNED")
  ELSE fs

\* the in-memory update after the writer call succeeded
FieldsAfter(fs, e) ==
  IF e.op \in {"saveText", "toggleCheckbox"} THEN setValueByName(fs, e.name, e.value)
  ELSE IF e.op = "clearForm" THEN clearAll(fs)
  ELSE IF e.mode = "single" /\ e.name \notin {undefined, ""}
    THEN setValueByName(fs, e.name, "SIGNED")
  ELSE IF e.mode = "all" THEN signAll(fs)
  ELSE fs

\* a refresh that schedules its callback twice
RefreshCalls_TwoTimers ==
  <<"maskOverlays", "overlaysVisible=false", "emit", "setTimeout", "setTimeout">>

\* refreshRendererAfterSave
RefreshCalls == <<"maskOverlays", "overlaysVisible=false", "emit", "setTimeout">>

EditDoneCalls == <<"fields=">> \o RefreshCalls \o <<"status=Done", "emit">>

Remove(seq, i) == [j \in 1..(Len(seq) - 1) |-> IF j < i THEN seq[j] ELSE seq[j + 1]]

\* the writer call of edits[i] resolves
EditWriterResolved(i) ==
  /\ i \in 1..Len(edits)
  /\ timers < MaxTimers
  /\ fields' = FieldsAfter(fields, edits[i])
  /\ timers' = timers + (IF Has(EditDoneCalls, "setTimeout") THEN 1 ELSE 0)
  /\ status' = DoneStatus(edits[i].op)
  /\ edits' = Remove(edits, i)
  /\ Apply(edits[i].op, "return", EditDoneCalls, FALSE)
  /\ UNCHANGED <<transport, fileName, localPath, pageNumber, scale, rendererReady, isDirty,
                 selectedFieldName, viewport, openTask, loads, loadPosts>>

\* a catch block that takes the dirty mark back
EditWriterRejected_ClearsDirty(i) ==
  /\ i \in 1..Len(edits)
  /\ status' = ErrorStatus(edits[i].op)
  /\ isDirty' = FALSE
  /\ edits' = Remove(edits, i)
  /\ Apply(edits[i].op, "throw:Writer", EditCatchCalls, FALSE)
  /\ UNCHANGED <<transport, fileName, localPath, pageNumber, scale, rendererReady,
                 fields, selectedFieldName, viewport, openTask, loads, timers, loadPosts>>

\* a catch block that leaves the status as the edit set it
EditWriterRejected_KeepsStatus(i) ==
  /\ i \in 1..Len(edits)
  /\ status' = status
  /\ edits' = Remove(edits, i)
  /\ Apply(edits[i].op, "throw:Writer", <<"emit", "onError", "throw">>, FALSE)
  /\ UNCHANGED <<transport, fileName, localPath, pageNumber, scale, rendererReady, isDirty,
                 fields, selectedFieldName, viewport, openTask, loads, timers, loadPosts>>

\* a rejection answered by a second writer call before the catch block
EditWriterRejected_Retries(i) ==
  /\ i \in 1..Len(edits)
  /\ status' = ErrorStatus(edits[i].op)
  /\ edits' = Remove(edits, i)
  /\ Apply(edits[i].op, "throw:Writer", <<"fieldWriter">> \o EditCatchCalls, FALSE)
  /\ UNCHANGED <<transport, fileName, localPath, pageNumber, scale, rendererReady, isDirty,
                 fields, selectedFieldName, viewport, openTask, loads, timers, loadPosts>>

\* the writer call of edits[i] rejects
EditWriterRejected(i) ==
  /\ i \in 1..Len(edits)
  /\ status' = ErrorStatus(edits[i].op)
  /\ edits' = Remove(edits, i)
  /\ Apply(edits[i].op, "throw:Writer", EditCatchCalls, FALSE)
  /\ UNCHANGED <<transport, fileName, localPath, pageNumber, scale, rendererReady, isDirty,
                 fields, selectedFieldName, viewport, openTask, loads, timers, loadPosts>>

\* a refresh callback that reports a render-done of its own
TimerCalls_MarksRenderDone ==
  <<"markRenderDone", "requestUnmask", "overlaysVisible=canShowOverlays", "emit">>

\* the callback refreshRendererAfterSave scheduled
TimerCalls == <<"requestUnmask", "overlaysVisible=canShowOverlays", "emit">>

TimerFires ==
  /\ timers > 0
  /\ timers' = timers - 1
  /\ Apply("refreshTimer", IF superseded > 0 THEN "superseded" ELSE "return", TimerCalls, FALSE)
  /\ UNCHANGED <<transport, fileName, localPath, pageNumber, scale, rendererReady, isDirty,
                 fields, selectedFieldName, viewport, status, openTask, edits, loads,
                 loadPosts>>

(* ------------------------------- requestClose -------------------------- *)
\* a close request that also forgets the unsaved changes
RequestClose_ClearsDirty ==
  /\ isDirty' = FALSE
  /\ last' = Step("requestClose", IF isDirty THEN "okToClose=false" ELSE "okToClose=true", <<>>)
  /\ UNCHANGED <<transport, fileName, localPath, pageNumber, scale, rendererReady,
                 overlaysVisible, fields, selectedFieldName, viewport, status, gate, tasks,
                 sinceMask, superseded>>

\* requestClose: a query of isDirty
RequestClose ==
  /\ last' = Step("requestClose", IF isDirty THEN "okToClose=false" ELSE "okToClose=true", <<>>)
  /\ UNCHANGED <<transport, session, gate, tasks, sinceMask, superseded>>

(* ------------------------------ the gate's clock ----------------------- *)
\* a pending unmask becomes Visible once the quiet window has elapsed
QuietElapsed ==
  /\ gate.state = "PendingUnmask"
  /\ gate' = quietWindowElapsed(gate)
  /\ last' = Step("quietWindow", "elapsed", <<>>)
  /\ UNCHANGED <<transport, session, tasks, sinceMask, superseded>>

(* ------------------------------ specifications ------------------------ *)
\* Spec: the overlay-gate flow of a session that opens one document (a
\* rejected open may be retried): renderer events, navigation, the four
\* edits, the refresh timer and the gate's quiet window, in every order.
\* Opening over an open document is part of SpecOpen.
GateRaws ==
  { RawOfType("RENDER_DONE"), RawOfType("READY_FOR_OVERLAYS"),
    RawOfType("DEBUG_PAGE_COUNT"), RawDims("800", "600", "1", undefined) }

GateEdits ==
  { Edit("saveText", "fullName", "Jane Doe", undefined),
    Edit("saveText", "nope", "Jane Doe", undefined),
    Edit("toggleCheckbox", "agree", jsFalse, undefined),
    Edit("saveSignature", undefined, "BASE64", "single"),
    Edit("clearForm", undefined, undefined, undefined) }

ResultA == OpenResult(PathOf("a.pdf"), ExtractedA, TemplateA)

Next ==
  \/ AttachRendererTransport
  \/ (fileName = null /\ OpenStart("a.pdf"))
  \/ OpenRejected
  \/ OpenResolved(ResultA, FALSE, FALSE)
  \/ \E raw \in GateRaws, txThrows \in BOOLEAN : OnPdfDimensions(raw, txThrows)
  \/ \E raw \in GateRaws : OnGateEvent(raw)
  \/ \E n \in {0, 2} : SetPage(n)
  \/ SetScale(10)
  \/ \E e \in GateEdits : EditFieldNotFound(e)
  \/ \E e \in GateEdits : EditNoLocalPath(e)
  \/ \E e \in GateEdits : EditStart(e)
  \/ \E i \in 1..MaxEdits : EditWriterResolved(i)
  \/ \E i \in 1..MaxEdits : EditWriterRejected(i)
  \/ TimerFires
  \/ QuietElapsed

Spec == Init /\ [][Next]_vars

\* SpecOpen: opening documents and loading them into the renderer, with
\* every failure of openDocument, READY events and viewport reports.
OpenRaws ==
  { RawOfType("READY"), RawDims("800", "600", "1", undefined),
    RawDims("600", "s:800", "1.5", "90") }

NextOpen ==
  \/ AttachRendererTransport
  \/ \E d \in Docs : OpenStart(d)
  \/ OpenRejected
  \/ \E res \in OpenResults(openTask.req), putThrows \in BOOLEAN, txThrows \in BOOLEAN :
       OpenResolved(res, putThrows, txThrows)
  \/ OpenReadResolved
  \/ OpenReadRejected
  \/ \E raw \in OpenRaws : OnReady(raw)
  \/ \E raw \in OpenRaws, txThrows \in BOOLEAN : OnPdfDimensions(raw, txThrows)
  \/ \E i \in 1..MaxLoads : LoadReadResolved(i)
  \/ \E i \in 1..MaxLoads : LoadReadRejected(i)

SpecOpen == Init /\ [][NextOpen]_vars

\* SpecGatePort: the overlay gate alone, driven by every evaluation of up to
\* three of its calls, and its quiet window.
GateOps == {"markTick", "markRenderDone", "maskOverlays", "requestUnmask"}

GateEvaluations ==
  {<<a>> : a \in GateOps} \cup {<<a, b>> : a, b \in GateOps}
    \cup {<<a, b, c>> : a, b, c \in GateOps}

GateEval(calls) ==
  /\ Apply("overlayGate", "return", calls, FALSE)
  /\ UNCHANGED <<transport, fileName, localPath, pageNumber, scale, rendererReady, isDirty,
                 fields, selectedFieldName, viewport, status, tasks>>

NextGatePort ==
  \/ \E calls \in GateEvaluations : GateEval(calls)
  \/ QuietElapsed

SpecGatePort == Init /\ [][NextGatePort]_vars

\* SpecMessages: the renderer channel, with well-formed and malformed raw
\* messages of every kind, around one opened document.
MessageRaws ==
  { NotJson,
    RawOfType(undefined), RawOfType("5"), RawOfType("BOGUS"),
    RawOfType("READY"), RawOfType("RENDER_DONE"), RawOfType("READY_FOR_OVERLAYS"),
    Raw(TRUE, "DEBUG_PAGE_COUNT", undefined, undefined, undefined, undefined, "5"),
    RawDims("800", "600", "1", undefined),
    RawDims("600", "s:800", "1.5", "90"),
    RawDims(undefined, "600", "1", "90"),
    RawDims("800", "abc", "1", undefined) }

NextMessages ==
  \/ AttachRendererTransport
  \/ (fileName = null /\ OpenStart("a.pdf"))
  \/ OpenResolved(ResultA, FALSE, FALSE)
  \/ OpenReadResolved
  \/ OpenReadRejected
  \/ \E raw \in MessageRaws : OnDropped(raw)
  \/ \E raw \in MessageRaws : OnReady(raw)
  \/ \E raw \in MessageRaws, txThrows \in BOOLEAN : OnPdfDimensions(raw, txThrows)
  \/ \E raw \in MessageRaws : OnGateEvent(raw)
  \/ \E i \in 1..MaxLoads : LoadReadResolved(i)
  \/ \E i \in 1..MaxLoads : LoadReadRejected(i)
  \/ QuietElapsed

SpecMessages == Init /\ [][NextMessages]_vars

\* SpecEdits: the four edits on one opened document, one call at a time (the
\* caller awaits each), with known and unknown targets and a writer that
\* succeeds or fails, between render-done cycles, selection and navigation.
EditInputs ==
  { Edit("saveText", "fullName", "Jane Doe", undefined),
    Edit("saveText", "nope", "Jane Doe", undefined),
    Edit("toggleCheckbox", "agree", undefined, undefined),
    Edit("toggleCheckbox", "nope", jsTrue, undefined),
    Edit("saveSignature", "sig", "BASE64", "single"),
    Edit("saveSignature", "nope", "BASE64", "single"),
    Edit("saveSignature", undefined, "BASE64", "all"),
    Edit("clearForm", undefined, undefined, undefined) }

NextEdits ==
  \/ (fileName = null /\ OpenStart("a.pdf"))
  \/ OpenResolved(ResultA, FALSE, FALSE)
  \/ OnGateEvent(RawOfType("RENDER_DONE"))
  \/ QuietElapsed
  \/ \E name \in {null, "fullName"} : SelectField(name)
  \/ SetPage(2)
  \/ \E e \in EditInputs : EditFieldNotFound(e)
  \/ \E e \in EditInputs : EditNoLocalPath(e)
  \/ \E e \in EditInputs : (edits = <<>> /\ EditStartObserved(e))
  \/ \E i \in 1..MaxEdits : EditWriterResolved(i)
  \/ \E i \in 1..MaxEdits : EditWriterRejected(i)
  \/ TimerFires

SpecEdits == Init /\ [][NextEdits]_vars

\* SpecStore: the Field Store of one opened document, either of the two, under
\* edits whose writer succeeds, with a viewport report so that fields carry
\* rendered boxes.
StoreInputs ==
  { Edit("saveText", "fullName", "Jane Doe", undefined),
    Edit("toggleCheckbox", "agree", undefined, undefined),
    Edit("saveSignature", "sig", "BASE64", "single"),
    Edit("saveSignature", "fullName", "BASE64", "single"),
    Edit("saveSignature", undefined, "BASE64", "all"),
    Edit("clearForm", undefined, undefined, undefined) }

NextStore ==
  \/ \E d \in Docs : (fileName = null /\ OpenStart(d))
  \/ \E res \in OpenResults(openTask.req) : OpenResolved(res, FALSE, FALSE)
  \/ OnPdfDimensions(RawDims("800", "600", "1", undefined), FALSE)
  \/ \E e \in StoreInputs : (edits = <<>> /\ EditStartObserved(e))
  \/ \E i \in 1..MaxEdits : EditWriterResolved(i)
  \/ TimerFires

SpecStore == Init /\ [][NextStore]_vars

\* SpecRefresh: the refresh after a successful edit against later masks: one
\* opened document, edits whose writer succeeds, viewport reports, navigation,
\* render-done cycles and the quiet window, with the superseded refresh
\* callbacks counted.
RefreshEdits ==
  { Edit("saveText", "fullName", "Jane Doe", undefined),
    Edit("clearForm", undefined, undefined, undefined) }

NextRefresh ==
  \/ (fileName = null /\ OpenStart("a.pdf"))
  \/ OpenResolved(ResultA, FALSE, FALSE)
  \/ OnPdfDimensions(RawDims("800", "600", "1", undefined), FALSE)
  \/ OnGateEvent(RawOfType("RENDER_DONE"))
  \/ SetPage(2)
  \/ SetScale(15)
  \/ \E e \in RefreshEdits : EditStart(e)
  \/ \E i \in 1..MaxEdits : EditWriterResolved(i)
  \/ TimerFires
  \/ QuietElapsed

SpecRefresh == InitTracked /\ [][NextRefresh]_vars

\* SpecViewport: viewport reports with every shape of rotation member (a
\* quarter turn, another number, null, missing) around one opened document.
ViewportRaws ==
  { RawDims("800", "600", "1", undefined),
    RawDims("800", "600", "1", null),
    RawDims("800", "600", "1", "90"),
    RawDims("600", "800", "1.5", "270"),
    RawDims("800", "600", "1", "45") }

NextViewport ==
  \/ AttachRendererTransport
  \/ (fileName = null /\ OpenStart("a.pdf"))
  \/ OpenResolved(ResultA, FALSE, FALSE)
  \/ \E raw \in ViewportRaws, txThrows \in BOOLEAN : OnPdfDimensions(raw, txThrows)
  \/ OnGateEvent(RawOfType("RENDER_DONE"))
  \/ QuietElapsed

SpecViewport == Init /\ [][NextViewport]_vars

\* SpecQuiet: what follows a RENDER_DONE when the renderer then stays silent.
\* One render-done per mask; time passes, so a pending quiet window elapses
\* and a scheduled refresh callback runs; everything else may never happen.
NextQuiet ==
  \/ (fileName = null /\ OpenStart("a.pdf"))
  \/ OpenResolved(ResultA, FALSE, FALSE)
  \/ OnPdfDimensions(RawDims("800", "600", "1", undefined), FALSE)
  \/ (sinceMask = {} /\ OnGateEvent(RawOfType("RENDER_DONE")))
  \/ SetPage(2)
  \/ EditStart(Edit("clearForm", undefined, undefined, undefined))
  \/ \E i \in 1..MaxEdits : EditWriterResolved(i)
  \/ TimerFires
  \/ QuietElapsed

SpecQuiet == Init /\ [][NextQuiet]_vars /\ WF_vars(QuietElapsed) /\ WF_vars(TimerFires)

\* SpecClose: the dirty flag over the life of a controller: documents opened
\* one after another, edits that fail early, fail at the writer or succeed,
\* and close requests at any moment.
CloseEdits ==
  { Edit("saveText", "fullName", "Jane Doe", undefined),
    Edit("toggleCheckbox", "agree", undefined, undefined),
    Edit("clearForm", undefined, undefined, undefined) }

NextClose ==
  \/ \E d \in Docs : OpenStart(d)
  \/ OpenRejected
  \/ \E res \in OpenResults(openTask.req) : OpenResolved(res, FALSE, FALSE)
  \/ \E e \in CloseEdits : EditFieldNotFound(e)
  \/ \E e \in CloseEdits : EditNoLocalPath(e)
  \/ \E e \in CloseEdits : EditStart(e)
  \/ \E i \in 1..MaxEdits : EditWriterResolved(i)
  \/ \E i \in 1..MaxEdits : EditWriterRejected(i)
  \/ TimerFires
  \/ RequestClose

SpecClose == Init /\ [][NextClose]_vars

\* SpecConcurrent: edits on different fields of one opened document, started
\* without awaiting one another, whose writer calls succeed in any order.
ConcurrentEdits ==
  { Edit("saveText", "fullName", "J. Doe", undefined),
    Edit("toggleCheckbox", "agree", undefined, undefined),
    Edit("saveSignature", "sig", "BASE64", "single") }

NextConcurrent ==
  \/ (fileName = null /\ OpenStart("a.pdf"))
  \/ OpenResolved(ResultA, FALSE, FALSE)
  \/ \E e \in ConcurrentEdits :
       /\ \A j \in 1..Len(edits) : edits[j].name # e.name
       /\ EditStartUnawaited(e)
  \/ \E i \in 1..MaxConcurrent : EditWriterResolved(i)
  \/ TimerFires

SpecConcurrent == Init /\ [][NextConcurrent]_vars

(* --------------------------------- claims ------------------------------ *)
AfterOpenReturn == last.op = "openDocument" /\ last.out = "return"

\* C1: immediately after openDocument completes, canShowOverlays() is false
\* and overlaysVisible is false, whatever the gate and the session were
\* before the call.  (openDocument never calls the gate: refuted.)
C1_OpenLeavesOverlaysMasked ==
  AfterOpenReturn => ~canShowOverlays(gate) /\ ~overlaysVisible

AfterDimensions ==
  last.op = "onRendererMessage" /\ last.out \in {"PDF_DIMENSIONS", "throw"}

AfterNavigation == last.op \in {"setPage", "setScale"}

IsPost(c) == c \in {"post:SET_PAGE", "post:SET_SCALE"}

\* C2: after a PDF_DIMENSIONS event and after setPage / setScale,
\* canShowOverlays() and overlaysVisible are both false, and setPage /
\* setScale call maskOverlays before they post their command.
C2_DimsAndNavigationMask ==
  /\ (AfterDimensions \/ AfterNavigation) => ~canShowOverlays(gate) /\ ~overlaysVisible
  /\ AfterNavigation =>
       \A i \in 1..Len(last.calls) :
         IsPost(last.calls[i]) => \E j \in 1..(i - 1) : last.calls[j] = "maskOverlays"

C2_Witness ==
  /\ last.op = "setPage"
  /\ Has(last.calls, "post:SET_PAGE")
  /\ fileName # null

AfterEdit == last.op \in EditOps

\* C3 as claimed: immediately after any edit call returns or throws,
\* canShowOverlays() and overlaysVisible are false.
C3_EveryEditCallMasks ==
  (AfterEdit /\ last.out # "suspended") => ~canShowOverlays(gate) /\ ~overlaysVisible

\* C3 as amended: once an edit has passed target resolution and the localPath
\* check (it is suspended on its writer call), and when an edit returns
\* successfully, the gate is Masked and overlaysVisible is false; and while
\* no RENDER_DONE / READY_FOR_OVERLAYS has been handled since the last mask,
\* both stay false.
C3_EditThatReachesWriterMasks ==
  /\ (AfterEdit /\ last.out \in {"suspended", "return"}) =>
       gate.state = "Masked" /\ ~overlaysVisible /\ sinceMask = {}
  /\ sinceMask = {} => ~canShowOverlays(gate) /\ ~overlaysVisible

C3_Witness ==
  /\ last.op = "saveText"
  /\ last.out = "return"
  /\ isDirty
  /\ timers > 0

\* C4: canShowOverlays() turns true only through the quiet window elapsing
\* on a pending unmask, with a RENDER_DONE or READY_FOR_OVERLAYS handled since
\* the last maskOverlays; overlaysVisible turns true only when the gate
\* says so; the refresh timer's unmask request never changes the gate's
\* answer, and with no such event since the last mask it leaves the gate
\* Masked.
C4_UnmaskOnlyAfterRenderEvent ==
  [][ /\ (~canShowOverlays(gate) /\ canShowOverlays(gate')) =>
           /\ last'.op = "quietWindow"
           /\ gate.state = "PendingUnmask"
           /\ sinceMask # {}
      /\ (~overlaysVisible /\ overlaysVisible') =>
           canShowOverlays(gate') /\ sinceMask' # {}
      /\ (last'.op = "refreshTimer" /\ timers' # timers) =>
           /\ canShowOverlays(gate') = canShowOverlays(gate)
           /\ sinceMask = {} => gate'.state = "Masked" /\ ~overlaysVisible'
    ]_vars

C4_Witness ==
  /\ last.op = "quietWindow"
  /\ canShowOverlays(gate)
  /\ "RENDER_DONE" \in sinceMask
  /\ isDirty

\* maskOverlays and requestUnmask both occur, and no markRenderDone follows
\* the last maskOverlays
RECURSIVE RenderDoneAfterMask(_, _)
RenderDoneAfterMask(calls, seen) ==
  IF calls = <<>> THEN seen
  ELSE IF Head(calls) = "maskOverlays" THEN RenderDoneAfterMask(Tail(calls), FALSE)
  ELSE IF Head(calls) = "markRenderDone" THEN RenderDoneAfterMask(Tail(calls), TRUE)
  ELSE RenderDoneAfterMask(Tail(calls), seen)

MaskAndRequest(calls) ==
  /\ Has(calls, "maskOverlays")
  /\ Has(calls, "requestUnmask")
  /\ ~RenderDoneAfterMask(calls, FALSE)

AfterReadyForOverlays == last.op = "onRendererMessage" /\ last.out = "READY_FOR_OVERLAYS"

\* a PDF_DIMENSIONS event was handled, so maskOverlays was called at least once
MaskedOnce == viewport # NoViewport

C9_FailedOpenLeavesSession ==
  (last.op = "openDocument" /\ last.out = "throw") =>
    /\ fileName = openTask.pre.fileName
    /\ localPath = openTask.pre.localPath
    /\ fields = openTask.pre.fields

\* C10 as claimed: every field that carries a rendered box has it equal to
\* toPixelRect(its normalized box, the current viewport).  (A throwing
\* transform, and a field without a normalized box, keep an old box:
\* refuted.)
C10_RenderedBoxesMatchViewport ==
  \A i \in 1..Len(fields) :
    (viewport # NoViewport /\ fields[i].scaledCoordinates # NoPixelRect) =>
      fields[i].scaledCoordinates = toPixelRect(fields[i].relativeCoordinates, viewport)

\* C11 as claimed: after a PDF_DIMENSIONS event during which toPixelRect
\* threw, a field with a normalized box has its rendered box unset or
\* computed for the viewport now stored, never one of an earlier viewport.
\* (The throw leaves the handler after viewport is assigned and before
\* fields is: refuted.)
C11_ThrowingTransformLeavesNoStaleBox ==
  (last.op = "onRendererMessage" /\ last.out = "throw") =>
    \A i \in 1..Len(fields) :
      fields[i].relativeCoordinates # undefined =>
        fields[i].scaledCoordinates \in
          {NoPixelRect, toPixelRect(fields[i].relativeCoordinates, viewport)}

\* C12 as claimed: no viewport with a NaN width, height or scale is ever
\* stored.  (The PDF_DIMENSIONS case stores what the parser returns: refuted.)
C12_NoNaNViewport ==
  viewport.width # NaN /\ viewport.height # NaN /\ viewport.scale # NaN

\* a raw message that is not JSON, or whose type is missing, not a string or
\* not one of the five
Malformed(raw) == ~raw.json \/ ~IsString(raw.type) \/ raw.type \notin InboundTypes

AfterDropped == last.op = "onRendererMessage" /\ last.out = "return"

\* C13: a malformed raw message yields no event, and handling a message that
\* yields no event calls nothing after the parser (no markTick, no other
\* gate call, no send, no emit, no throw) and changes no field of the
\* session, the gate or the pending work.
C13_MalformedMessageIsDropped ==
  [][ /\ \A raw \in MessageRaws : Malformed(raw) => parseRendererInboundMessage(raw) = NoEvent
      /\ AfterDropped' =>
           /\ last'.calls = <<"parseInboundMessage">>
           /\ UNCHANGED <<transport, session, gate, tasks, sinceMask, superseded>>
    ]_vars

C13_Witness ==
  /\ AfterDropped
  /\ gate.state = "PendingUnmask"
  /\ viewport # NoViewport
  /\ fileName # null

AfterEvent == last.op = "onRendererMessage" /\ last.out \in InboundTypes \cup {"throw"}

\* the assignments to the session and the load step, as they appear in a
\* handler's calls
SessionMutations ==
  {"rendererReady=true", "loadIntoRenderer", "viewport=", "fields=",
   "overlaysVisible=false", "overlaysVisible=canShowOverlays"}

IsGateStep(c) == c \in GateOps \cup {"overlaysVisible=canShowOverlays"}

\* C14: for a parsed event of any of the five types markTick is called, and
\* before every other gate call and every session mutation of that event;
\* RENDER_DONE calls markTick, markRenderDone, requestUnmask in this order and
\* then sets overlaysVisible from canShowOverlays(), so that it leaves the
\* render-done recorded, an unmask pending or the gate Visible, and
\* overlaysVisible equal to the gate's answer.
C14_TickFirstThenRenderDoneOrder ==
  /\ AfterEvent =>
       \E t \in 1..Len(last.calls) :
         /\ last.calls[t] = "markTick"
         /\ \A i \in 1..Len(last.calls) :
              last.calls[i] \in (GateOps \ {"markTick"}) \cup SessionMutations => t < i
  /\ (AfterEvent /\ last.out = "RENDER_DONE") =>
       /\ SelectSeq(last.calls, IsGateStep) =
            <<"markTick", "markRenderDone", "requestUnmask", "overlaysVisible=canShowOverlays">>
       /\ gate.renderDone
       /\ gate.state \in {"PendingUnmask", "Visible"}
       /\ overlaysVisible = canShowOverlays(gate)

C14_Witness ==
  /\ AfterEvent
  /\ last.out = "RENDER_DONE"
  /\ gate.state = "PendingUnmask"
  /\ viewport # NoViewport
  /\ rendererReady

AfterFieldNotFound == last.op \in EditOps /\ last.out = "throw:FieldNotFound"

\* C15: saveText or toggleCheckbox with a field name that is not in the Field
\* Store throws, calls no writer and leaves the fields and isDirty as they
\* were; a saveText or toggleCheckbox that reaches the writer names a field
\* of the Field Store.
C15_UnknownFieldEditLeavesFieldStore ==
  [][ /\ AfterFieldNotFound' =>
           /\ last'.op \in {"saveText", "toggleCheckbox"}
           /\ fields' = fields
           /\ isDirty' = isDirty
           /\ edits' = edits
           /\ ~Has(last'.calls, "fieldWriter")
           /\ last'.calls[Len(last'.calls)] = "throw"
      /\ (last'.op \in {"saveText", "toggleCheckbox"} /\ last'.out = "suspended") =>
           findField(fields, edits'[Len(edits')].name) # 0
    ]_vars

C15_Witness ==
  /\ AfterFieldNotFound
  /\ last.op = "toggleCheckbox"
  /\ Len(fields) > 0
  /\ ~isDirty

\* C16 as claimed: an edit that fails on an unknown target leaves status,
\* selection, overlaysVisible, viewport, page, scale, fields and isDirty as
\* they were.  (The catch block sets the status: refuted.)
C16_UnknownFieldEditMutatesNothing ==
  [][ AfterFieldNotFound' =>
        UNCHANGED <<status, selectedFieldName, overlaysVisible, viewport, pageNumber, scale,
                    fields, isDirty>>
    ]_vars

\* C16 as amended: such an edit changes the status to the operation's error
\* text and nothing else of the session or the gate.
C16_UnknownFieldEditSetsOnlyStatus ==
  [][ AfterFieldNotFound' =>
        /\ status' = ErrorStatus(last'.op)
        /\ UNCHANGED <<fileName, localPath, selectedFieldName, overlaysVisible, viewport,
                       pageNumber, scale, rendererReady, fields, isDirty, gate, tasks>>
    ]_vars

C16_Witness ==
  /\ AfterFieldNotFound
  /\ last.op = "saveText"
  /\ status = "Error saving text"
  /\ overlaysVisible
  /\ selectedFieldName = "fullName"
  /\ pageNumber = 2

\* C17 as claimed: saveSignature in mode "single" with a targetFieldName that
\* is not in the Field Store fails before it marks the session dirty, masks
\* or calls the writer, so a saveSignature suspended on its writer call in
\* mode "single" names a field of the Field Store.  (saveSignature never
\* looks its target up: refuted.)
C17_SignatureResolvesTargetFirst ==
  (last.op = "saveSignature" /\ last.out = "suspended") =>
    \A i \in 1..Len(edits) :
      (edits[i].op = "saveSignature" /\ edits[i].mode = "single"
         /\ edits[i].name # undefined) =>
        findField(fields, edits[i].name) # 0

AfterWriterFailure == last.op \in EditOps /\ last.out = "throw:Writer"

Count(calls, c) == Cardinality({i \in 1..Len(calls) : calls[i] = c})

\* C18: an edit calls the writer once, when it suspends; when the writer
\* fails, the call ends without another writer call, calls onError once and
\* then throws, changes no field, schedules no refresh timer, and leaves
\* isDirty true.
C18_WriterFailureNoRetry ==
  [][ /\ (last'.op \in EditOps /\ last'.out = "suspended") =>
           /\ Count(last'.calls, "fieldWriter") = 1
           /\ Len(edits') = Len(edits) + 1
      /\ AfterWriterFailure' =>
           /\ Count(last'.calls, "fieldWriter") = 0
           /\ Count(last'.calls, "onError") = 1
           /\ last'.calls[Len(last'.calls)] = "throw"
           /\ Len(edits') = Len(edits) - 1
           /\ fields' = fields
           /\ timers' = timers
           /\ ~Has(last'.calls, "setTimeout")
           /\ isDirty'
    ]_vars

C18_Witness ==
  /\ AfterWriterFailure
  /\ last.op = "clearForm"
  /\ isDirty
  /\ timers = 0
  /\ fields[1].value = "Jane Doe"

C20_DirtyOnlyAfterSuccessfulWrite ==
  [][ (~isDirty /\ isDirty') => (last'.op \in EditOps /\ last'.out = "return") ]_vars

\* C20 as amended: isDirty changes only from false to true, and only in the
\* step in which an edit that has passed its field lookup and its working
\* copy check reaches its writer call; the outcome of the writer, a renderer
\* event, a navigation, a selection or a refresh timer never changes it, so
\* an edit on a clean session whose writer fails leaves isDirty true.
C20_DirtySetWhenEditReachesWriter ==
  [][ /\ isDirty' # isDirty =>
           /\ ~isDirty /\ isDirty'
           /\ last'.op \in EditOps /\ last'.out = "suspended"
           /\ Len(edits') = Len(edits) + 1
      /\ (AfterWriterFailure' /\ Len(edits') < Len(edits)) => (isDirty /\ isDirty')
    ]_vars

\* a toggle has failed at the writer and the session is dirty
C20_Witness ==
  /\ AfterWriterFailure
  /\ last.op = "toggleCheckbox"
  /\ status = "Error saving checkbox"
  /\ isDirty
  /\ edits = <<>>
  /\ timers = 0

AfterSuccessful(op) == last.op = op /\ last.out = "return"

\* the step in which the writer call of the one pending edit has succeeded
WriterSucceeds(op) == AfterSuccessful(op)' /\ Len(edits) = 1 /\ edits' = <<>> /\ edits[1].op = op

SameButValue(f, g) ==
  /\ f.name = g.name
  /\ f.type = g.type
  /\ f.relativeCoordinates = g.relativeCoordinates
  /\ f.scaledCoordinates = g.scaledCoordinates

\* C21: when saveText(name, v) succeeds on a session that has a field called
\* name, afterwards that field's value is v and isDirty is true, the Field
\* Store has the same fields in the same order with the same names, kinds
\* and boxes, and the value of every other field is what it was.
C21_SaveTextChangesOneValue ==
  [][ (WriterSucceeds("saveText") /\ findField(fields, edits[1].name) # 0) =>
        LET k == findField(fields, edits[1].name) IN
        /\ isDirty'
        /\ Len(fields') = Len(fields)
        /\ fields'[k].value = edits[1].value
        /\ \A i \in 1..Len(fields) :
             /\ SameButValue(fields'[i], fields[i])
             /\ i # k => fields'[i].value = fields[i].value
    ]_vars

\* saveText has put "Jane Doe" back into a cleared form whose checkbox was
\* then ticked and whose signature field was signed
C21_Witness ==
  /\ AfterSuccessful("saveText")
  /\ Len(fields) = 3
  /\ fields[1].value = "Jane Doe"
  /\ fields[2].value = jsTrue
  /\ fields[3].value = "SIGNED"
  /\ isDirty

\* C22: when clearForm succeeds, every field's value is reset by kind (text
\* to "", checkbox to false, signature and every other kind to null), the
\* Field Store keeps its length and order and each field's name, kind and
\* boxes, and clearing the result again changes nothing.
C22_ClearFormResetsByKind ==
  [][ WriterSucceeds("clearForm") =>
        /\ Len(fields') = Len(fields)
        /\ \A i \in 1..Len(fields) :
             /\ SameButValue(fields'[i], fields[i])
             /\ fields[i].type = "PDFTextField" => fields'[i].value = ""
             /\ fields[i].type = "PDFCheckBox" => fields'[i].value = jsFalse
             /\ fields[i].type \notin {"PDFTextField", "PDFCheckBox"} => fields'[i].value = null
        /\ FieldsAfter(fields', edits[1]) = fields'
    ]_vars

\* a form with a radio group and rendered boxes has been cleared
C22_Witness ==
  /\ AfterSuccessful("clearForm")
  /\ fileName = "b.pdf"
  /\ viewport # NoViewport
  /\ Len(fields) = 2
  /\ fields[1].value = ""
  /\ fields[2].type = "PDFRadio"
  /\ fields[2].value = null
  /\ fields[1].scaledCoordinates # NoPixelRect

\* C23: when saveSignature succeeds, a field's value changes only if the
\* field is signature-typed and in the call's scope (mode "all": every
\* signature-typed field; mode "single": the field named targetFieldName),
\* every signature-typed field in scope holds "SIGNED" afterwards, and no
\* field holds the signature payload.
C23_SignatureMarksOnlySignatureFields ==
  [][ WriterSucceeds("saveSignature") =>
        LET e == edits[1]
            InScope(f) == \/ e.mode = "all"
                          \/ e.mode = "single" /\ f.name = e.name
        IN
        /\ Len(fields') = Len(fields)
        /\ \A i \in 1..Len(fields) :
             /\ SameButValue(fields'[i], fields[i])
             /\ fields'[i].value # e.value
             /\ (fields[i].type = "PDFSignature" /\ InScope(fields[i]))
                  => fields'[i].value = "SIGNED"
             /\ ~(fields[i].type = "PDFSignature" /\ InScope(fields[i]))
                  => fields'[i].value = fields[i].value
    ]_vars

AfterRefreshTimer == last.op = "refreshTimer"

\* the refresh callback runs, and a maskOverlays came after the edit that
\* scheduled it
SupersededTimerFires == AfterRefreshTimer' /\ timers' = timers - 1 /\ superseded > 0

\* C24 as claimed: a successful edit ends masked, with one more refresh
\* callback scheduled by one setTimeout call; and a refresh callback that a
\* later maskOverlays has superseded leaves overlaysVisible false.  (The
\* callback copies canShowOverlays(), which is true when a render-done cycle
\* completed after the later mask: refuted.)
C24_SupersededTimerKeepsOverlaysHidden ==
  [][ /\ (\E op \in EditOps : WriterSucceeds(op)) =>
           /\ gate'.state = "Masked" /\ ~overlaysVisible'
           /\ timers' = timers + 1
           /\ Count(last'.calls, "setTimeout") = 1
      /\ SupersededTimerFires => ~overlaysVisible'
    ]_vars

\* C24 as amended: a successful edit ends masked, with one more refresh
\* callback scheduled by one setTimeout call; a refresh callback that a later
\* maskOverlays has superseded never changes whether the gate shows
\* overlays, leaves the gate Masked and overlaysVisible false when no
\* RENDER_DONE or READY_FOR_OVERLAYS was handled since that mask, and sets
\* overlaysVisible to true only when the gate had already become Visible
\* through a render-done cycle of its own.
C24_SupersededTimerOnlyReportsTheGate ==
  [][ /\ (\E op \in EditOps : WriterSucceeds(op)) =>
           /\ gate'.state = "Masked" /\ ~overlaysVisible'
           /\ timers' = timers + 1
           /\ Count(last'.calls, "setTimeout") = 1
      /\ SupersededTimerFires =>
           /\ canShowOverlays(gate') = canShowOverlays(gate)
           /\ overlaysVisible' = canShowOverlays(gate)
           /\ sinceMask = {} => (gate'.state = "Masked" /\ ~overlaysVisible')
           /\ overlaysVisible' => "RENDER_DONE" \in sinceMask
    ]_vars

\* a superseded refresh callback has run on a masked gate: setPage masked
\* after the edit, and nothing was rendered since
C24_Witness ==
  /\ AfterRefreshTimer
  /\ last.out = "superseded"
  /\ pageNumber = 2
  /\ gate.state = "Masked"
  /\ sinceMask = {}
  /\ ~overlaysVisible
  /\ timers = 0

\* what the instance manager answered for the document the session names
Opened == CHOOSE res \in OpenResults(fileName) : TRUE

\* C25: when openDocument has returned, the Field Store has the template's
\* fields in the template's order, each with the template's name, kind and
\* percent box; a field whose name the extraction has carries the extracted
\* value, any other field its template value; and no field carries a name
\* that only the extraction has.
C25_FieldStoreIsTemplateWithExtractedValues ==
  AfterOpenReturn =>
    LET T == Opened.template
        E == Opened.extractedFields
    IN
    /\ Len(fields) = Len(T)
    /\ \A i \in 1..Len(T) :
         /\ fields[i].name = T[i].name
         /\ fields[i].type = T[i].type
         /\ fields[i].relativeCoordinates = T[i].relativeCoordinates
         /\ \A j \in 1..Len(E) : E[j].name = T[i].name => fields[i].value = E[j].value
         /\ (\A j \in 1..Len(E) : E[j].name # T[i].name) => fields[i].value = T[i].value
    /\ \A j \in 1..Len(E) :
         (\A i \in 1..Len(T) : T[i].name # E[j].name) =>
           \A k \in 1..Len(fields) : fields[k].name # E[j].name

\* a.pdf is open: fullName carries the extracted "Jane Doe", agree and sig
\* their template values, and the extraction's "stray" field is not there
C25_Witness ==
  /\ AfterOpenReturn
  /\ fileName = "a.pdf"
  /\ Len(fields) = 3
  /\ fields[1].name = "fullName" /\ fields[1].value = "Jane Doe"
  /\ fields[2].name = "agree" /\ fields[2].value = jsFalse
  /\ fields[3].name = "sig" /\ fields[3].value = null
  /\ status = "Ready"

QuarterTurns == {"0", "90", "180", "270"}

\* C26: in every reachable state the viewport is absent, or its rotation is
\* absent or one of 0, 90, 180, 270; and after a viewport report the viewport
\* is the report's width, height and scale with the report's rotation, absent
\* when the report has none.  (The handler stores whatever number the report
\* carries as rotation: refuted.)
C26_ViewportRotationIsQuarterTurn ==
  /\ viewport # NoViewport => viewport.rotation \in QuarterTurns \cup {undefined}
  /\ (last.op = "onRendererMessage" /\ last.out = "PDF_DIMENSIONS") =>
       \E raw \in ViewportRaws :
         viewport = Viewport(Number(raw.width), Number(raw.height), Number(raw.scale),
                             IF raw.rotation \in QuarterTurns THEN raw.rotation
                             ELSE undefined)

\* C27: in every reachable state, overlaysVisible implies that the gate is
\* not Masked; and a step that called maskOverlays has left the gate Masked
\* and overlaysVisible false.
C27_VisibleSnapshotImpliesUnmaskedGate ==
  /\ overlaysVisible => gate.state # "Masked"
  /\ Has(last.calls, "maskOverlays") => (gate.state = "Masked" /\ ~overlaysVisible)

\* overlays are shown on a dirty session that has a viewport and was
\* navigated to page 2: every mask on the way there was lifted by the gate
C27_Witness ==
  /\ overlaysVisible
  /\ gate.state = "Visible"
  /\ pageNumber = 2
  /\ isDirty
  /\ viewport # NoViewport
  /\ timers = 0

AfterRenderDone == last.op = "onRendererMessage" /\ last.out = "RENDER_DONE"

\* a renderer event other than that RENDER_DONE, a navigation, an edit or an
\* open was the latest step
FurtherActivity ==
  \/ last.op \notin {"onRendererMessage", "quietWindow", "refreshTimer"}
  \/ last.op = "onRendererMessage" /\ last.out # "RENDER_DONE"

\* C28: once a RENDER_DONE has been handled, either something further happens
\* (a renderer event, a navigation, an edit) or overlaysVisible eventually
\* becomes true.  (Nothing tells the controller that the quiet window has
\* elapsed: overlaysVisible stays false while the gate is Visible: refuted.)
C28_RenderDoneEventuallyShowsOverlays ==
  AfterRenderDone ~> (overlaysVisible \/ FurtherActivity)

AfterRequestClose == last.op = "requestClose"

\* C29: isDirty never goes from true to false, whatever the step (a later
\* edit, an open of another document, a refresh, a close request); an edit
\* that reaches its writer call leaves isDirty true; and requestClose changes
\* nothing and answers okToClose=true exactly when isDirty is false.
C29_DirtyIsNeverCleared ==
  [][ /\ isDirty => isDirty'
      /\ (last'.op \in EditOps /\ last'.out = "suspended") => isDirty'
      /\ AfterRequestClose' =>
           /\ UNCHANGED <<transport, session, gate, tasks, sinceMask, superseded>>
           /\ last'.out = (IF isDirty THEN "okToClose=false" ELSE "okToClose=true")
           /\ last'.calls = <<>>
    ]_vars

\* b.pdf was opened with success on a controller that was already dirty, and
\* a close request was refused
C29_Witness ==
  /\ AfterRequestClose
  /\ last.out = "okToClose=false"
  /\ isDirty
  /\ fileName = "b.pdf"
  /\ status = "Ready"
  /\ fields = layerValues(TemplateB, ExtractedB)
  /\ openTask = NoOpen
  /\ edits = <<>>

\* C30: while an edit is suspended on its writer call, overlaysVisible is
\* false.  (A RENDER_DONE handled during the call lets the gate become
\* Visible, and the next RENDER_DONE or READY_FOR_OVERLAYS copies that into
\* overlaysVisible: refuted.)
C30_NoOverlaysWhileWriting ==
  edits # <<>> => ~overlaysVisible

ValueOf(fs, name) == fs[findField(fs, name)].value

\* C31: when the writer call of one of several pending edits on different
\* fields succeeds, in whatever order, the field it names takes its value and
\* every other field stays as it is at that moment, with what the edits
\* completed before it have written; so once all have completed the Field
\* Store holds every new value; and isDirty is true from the first call on.
C31_ConcurrentEditsKeepBothValues ==
  [][ /\ \A i \in 1..Len(edits) :
           (edits' = Remove(edits, i) /\ last'.op = edits[i].op /\ last'.out = "return") =>
             /\ Len(fields') = Len(fields)
             /\ \A k \in 1..Len(fields) :
                  /\ SameButValue(fields'[k], fields[k])
                  /\ fields'[k].value =
                       (IF fields[k].name # edits[i].name THEN fields[k].value
                        ELSE IF edits[i].op = "saveSignature" THEN "SIGNED"
                        ELSE edits[i].value)
             /\ \A j \in 1..Len(edits) :
                  j # i => ValueOf(fields', edits[j].name) = ValueOf(fields, edits[j].name)
      /\ (edits # <<>> \/ edits' # <<>>) => isDirty'
    ]_vars

\* saveText and toggleCheckbox were both pending at once, the toggle's writer
\* call completed last, and both values are in the Field Store
C31_Witness ==
  /\ AfterSuccessful("toggleCheckbox")
  /\ edits = <<>>
  /\ ValueOf(fields, "fullName") = "J. Doe"
  /\ ValueOf(fields, "agree") = jsTrue
  /\ ValueOf(fields, "sig") = null
  /\ isDirty

====
